---- MODULE Spec2Model ----
(***************************************************************************)
(* A model of the package universe of deb-repo (src/src/universe.rs): the  *)
(* interning index built by Universe::new, the dependency-provider queries *)
(* answered to the clause solver, the problem builder, and the post-solve  *)
(* dependency graph and install ordering.                                  *)
(*                                                                         *)
(* Ids are the zero-based insertion indices of the code's IdMap tables; a  *)
(* table is a sequence, so the value of id i is table[i + 1].  An Option   *)
(* is the empty sequence (None) or a one-element sequence (Some).          *)
(***************************************************************************)
EXTENDS Integers, Sequences, FiniteSets, TLC

VARIABLES pc, packages, interned, index, required, prob, calls, out

vars == <<pc, packages, interned, index, required, prob, calls, out>>

(***************************************************************************)
(* Bounds of the model: packages ingested, versions a package can have,    *)
(* members of a slice passed for ordering, problems built, and candidate,  *)
(* filter, graph and ordering queries made of one universe.                *)
(***************************************************************************)
MaxPackages == 3
MaxVersion == 2
MaxSolution == 3
MaxProblems == 1
MaxCalls == 1
MaxCandidates == 2

(***************************************************************************)
(* Architectures.                                                          *)
(***************************************************************************)
\* ArchId::Any is index 0 of the archlist.
ArchAny == 0

satisfies_flipped(this, target) ==
    CASE this = ArchAny -> TRUE
      [] target = ArchAny -> FALSE
      [] OTHER -> this = target

\* impl Satisfies<ArchId> for ArchId
satisfies(this, target) ==
    CASE this = ArchAny -> TRUE
      [] target = ArchAny -> TRUE
      [] OTHER -> this = target

\* str::to_ascii_lowercase on the architecture spellings the model uses
to_ascii_lowercase(s) ==
    CASE s = "ALL" -> "all"
      [] s = "All" -> "all"
      [] s = "ANY" -> "any"
      [] s = "Any" -> "any"
      [] OTHER -> s

eq_ignore_ascii_case(a, b) == to_ascii_lowercase(a) = to_ascii_lowercase(b)

(***************************************************************************)
(* Versions and version ranges (crate::version).                           *)
(***************************************************************************)
Versions == 1..MaxVersion

RangeOps == {"any", "none", "=", ">=", "<<"}

AnyRange == [op |-> "any", v |-> 1]

NoneRange == [op |-> "none", v |-> 1]

Ranges == {AnyRange, NoneRange} \cup [op : {"=", ">=", "<<"}, v : Versions]

\* Version::into(): the range holding exactly one version
exact_range(v) == [op |-> "=", v |-> v]

\* Version::satisfies(range)
version_satisfies(v, range) ==
    CASE range.op = "any" -> TRUE
      [] range.op = "none" -> FALSE
      [] range.op = "=" -> v = range.v
      [] range.op = ">=" -> v >= range.v
      [] range.op = "<<" -> v < range.v

\* ProvidedName::satisfies(range): a provided name with a version satisfies
\* as that version does, one without satisfies only the unversioned range
provided_satisfies(pv, range) ==
    IF pv.version = <<>> THEN range.op = "any"
    ELSE version_satisfies(pv.version[1], range)

(***************************************************************************)
(* Parsed packages (crate::packages): the accessors of section 6.1.        *)
(***************************************************************************)
\* Package::provides_name(n): the package's own name or one it provides
provides_name(package, n) ==
    \/ package.name = n
    \/ \E k \in 1..Len(package.provides) :
          package.provides[k].ok /\ package.provides[k].name = n

\* Package::full_name() as displayed
full_name(package) ==
    package.name \o ":" \o package.architecture \o "=" \o ToString(package.version)

\* the one element of a singleton set: { e(x) : x \in {v} } computes v once
\* and names it x in e, as a let binding of the code does
the(S) == CHOOSE x \in S : TRUE

(***************************************************************************)
(* IdMap (crate::idmap): append-only tables deduplicated by key.           *)
(***************************************************************************)
Contains(table, key) == \E i \in 1..Len(table) : table[i] = key

Position(table, key) == CHOOSE i \in 1..Len(table) : table[i] = key

\* IdMap::get_or_insert
get_or_insert(table, key) ==
    IF Contains(table, key)
    THEN [table |-> table, id |-> Position(table, key) - 1]
    ELSE [table |-> Append(table, key), id |-> Len(table)]

\* IdMap::intern on the string table
intern(u, s) == [u EXCEPT !.interned = get_or_insert(u.interned, s).table]

(***************************************************************************)
(* UniverseIndex.                                                          *)
(***************************************************************************)
\* UniverseIndex::default()
EmptyIndex ==
    [arch |-> ArchAny, solvables |-> <<>>, names |-> <<>>, archlist |-> <<>>,
     version_sets |-> <<>>, version_set_unions |-> <<>>, required |-> <<>>]

get_arch_id(idx, arch) ==
    IF eq_ignore_ascii_case(arch, "all")
    THEN [index |-> idx, id |-> ArchAny]
    ELSE the({ [index |-> [idx EXCEPT !.archlist = r.table], id |-> r.id] :
               r \in {get_or_insert(idx.archlist, arch)} })

HasName(idx, name) == \E i \in 1..Len(idx.names) : idx.names[i].name = name

NamePosition(idx, name) == CHOOSE i \in 1..Len(idx.names) : idx.names[i].name = name

update_name_always_required(old, solvable) ==
    IF solvable = <<>> THEN old
    ELSE [old EXCEPT !.packages = Append(@, solvable[1].id),
                     !.required = Append(@, solvable[1].id)]

\* the closure insert_or_update runs on a name already in the table
update_name(old, solvable) ==
    IF solvable = <<>> THEN old
    ELSE [old EXCEPT !.packages = Append(@, solvable[1].id),
                     !.required = IF solvable[1].required
                                  THEN Append(@, solvable[1].id) ELSE @]

\* the closure insert_or_update runs to create the entry of a new name
new_name(name, solvable) ==
    IF solvable = <<>>
    THEN [name |-> name, packages |-> <<>>, required |-> <<>>]
    ELSE [name |-> name, packages |-> <<solvable[1].id>>,
          required |-> IF solvable[1].required THEN <<solvable[1].id>> ELSE <<>>]

\* solvable is None (<<>>) or Some((id, required)) (<<[id, required]>>)
insert_or_update_name(idx, name, solvable) ==
    IF HasName(idx, name)
    THEN the({ [index |-> [idx EXCEPT !.names[i] = update_name(@, solvable)],
                id |-> i - 1, inserted |-> FALSE] :
               i \in {NamePosition(idx, name)} })
    ELSE [index |-> [idx EXCEPT !.names = Append(@, new_name(name, solvable))],
          id |-> Len(idx.names), inserted |-> TRUE]

\* get_or_insert on the version-set table
insert_version_set(idx, vs) ==
    the({ [index |-> [idx EXCEPT !.version_sets = r.table], id |-> r.id] :
          r \in {get_or_insert(idx.version_sets, vs)} })

\* get_or_insert on the union table
insert_union(idx, ids) ==
    the({ [index |-> [idx EXCEPT !.version_set_unions = r.table], id |-> r.id] :
          r \in {get_or_insert(idx.version_set_unions, ids)} })

get_single_dependency_id_as_candidate(idx, dep) ==
    the({ insert_version_set(n.index,
              [arch |-> dep.arch, name |-> n.id, selfref |-> <<>>, range |-> dep.range]) :
          n \in {insert_or_update_name(idx, dep.name,
                                       <<[id |-> 0, required |-> FALSE]>>)} })

\* dep has its arch already translated to an ArchId
get_single_dependency_id(idx, dep) ==
    the({ insert_version_set(n.index,
              [arch |-> dep.arch, name |-> n.id, selfref |-> <<>>, range |-> dep.range]) :
          n \in {insert_or_update_name(idx, dep.name, <<>>)} })

\* the arch closure of Constraint::translate: the universe's arch when the
\* constraint names none, else the interned qualifier's ArchId
translate_arch(u, dep) ==
    IF dep.arch = <<>> THEN [u |-> u, id |-> u.index.arch]
    ELSE the({ [u |-> [interned |-> intern(u, dep.arch[1]).interned, index |-> a.index],
                id |-> a.id] :
               a \in {get_arch_id(u.index, dep.arch[1])} })

\* the name and version closures of Constraint::translate
translate_strings(u, dep) ==
    IF dep.range.op \in {"any", "none"} THEN intern(u, dep.name)
    ELSE the({ intern(u1, ToString(dep.range.v)) : u1 \in {intern(u, dep.name)} })

\* Constraint::translate followed by get_single_dependency_id
intern_version_set(u, dep) ==
    the({ the({ [u |-> [interned |-> translate_strings(a.u, dep).interned,
                        index |-> r.index],
                 id |-> r.id] :
                r \in {get_single_dependency_id(a.u.index,
                          [arch |-> a.id, name |-> dep.name, range |-> dep.range])} }) :
          a \in {translate_arch(u, dep)} })

RECURSIVE intern_version_sets(_, _, _, _)
\* the alternatives of a user-level union, interned left to right
intern_version_sets(u, deps, k, ids) ==
    IF k > Len(deps) THEN [u |-> u, ids |-> ids]
    ELSE the({ intern_version_sets(r.u, deps, k + 1, Append(ids, r.id)) :
               r \in {intern_version_set(u, deps[k])} })

get_union_dependency_id(u, deps) ==
    the({ the({ [u |-> [r.u EXCEPT !.index = i.index], id |-> i.id] :
                i \in {insert_union(r.u.index, r.ids)} }) :
          r \in {intern_version_sets(u, deps, 1, <<>>)} })

RECURSIVE add_provides(_, _, _, _)
\* the loop over package.provides() of add_package; a parse error ends it
add_provides(idx, solvable_id, provides, k) ==
    IF k > Len(provides) THEN [index |-> idx, ok |-> TRUE]
    ELSE IF ~provides[k].ok THEN [index |-> idx, ok |-> FALSE]
    ELSE the({ add_provides(n.index, solvable_id, provides, k + 1) :
               n \in {insert_or_update_name(idx, provides[k].name,
                          <<[id |-> solvable_id, required |-> FALSE]>>)} })

\* let is_required = package.essential() || package.required()
is_required(package) == package.essential \/ package.required

\* self.solvables.push(Solvable { pkgs, arch, name, package })
push_solvable(idx, pkgs, arch, name, package) ==
    [idx EXCEPT !.solvables =
        Append(@, [pkgs |-> pkgs, arch |-> arch, name |-> name, package |-> package])]

\* add_package once the package's arch and name have their ids
add_named_package(a, n, pkgs, req, package) ==
    the({ [index |-> p.index,
           required |-> IF n.inserted /\ is_required(package) THEN Append(req, n.id) ELSE req,
           ok |-> p.ok] :
          p \in {add_provides(push_solvable(n.index, pkgs, a.id, n.id, package),
                              Len(n.index.solvables), package.provides, 1)} })

add_package(idx, pkgs, req, package) ==
    the({ the({ add_named_package(a, n, pkgs, req, package) :
                n \in {insert_or_update_name(a.index, package.name,
                          <<[id |-> Len(idx.solvables),
                             required |-> is_required(package)]>>)} }) :
          a \in {get_arch_id(idx, package.architecture)} })

RECURSIVE pin_required(_, _, _, _, _)
\* one exact-version version-set per required solvable of a name
pin_required(idx, name, sids, k, ids) ==
    IF k > Len(sids) THEN [index |-> idx, ids |-> ids]
    ELSE the({ pin_required(r.index, name, sids, k + 1, Append(ids, r.id)) :
               r \in {insert_version_set(idx,
                         [arch |-> idx.solvables[sids[k] + 1].arch, name |-> name,
                          selfref |-> <<>>,
                          range |-> exact_range(
                                        idx.solvables[sids[k] + 1].package.version)])} })

\* the requirement seeded for one name: Single for one pin, Union otherwise
required_requirement(p) ==
    IF Len(p.ids) = 1
    THEN [index |-> p.index, req |-> [kind |-> "Single", id |-> p.ids[1]]]
    ELSE the({ [index |-> i.index, req |-> [kind |-> "Union", id |-> i.id]] :
               i \in {insert_union(p.index, p.ids)} })

RECURSIVE seed_required(_, _, _)
\* the loop of Universe::new over the names recorded during ingestion
seed_required(idx, req, k) ==
    IF k > Len(req) THEN idx
    ELSE the({ the({ seed_required([r.index EXCEPT !.required = Append(@, r.req)],
                                   req, k + 1) :
                     r \in {required_requirement(p)} }) :
               p \in {pin_required(idx, req[k], idx.names[req[k] + 1].required,
                                   1, <<>>)} })

\* the arch of a package dependency's version-set
dependency_arch(pkg, dep) ==
    IF dep.arch = <<>> THEN pkg.arch
    ELSE IF eq_ignore_ascii_case(dep.arch[1], "any") THEN ArchAny
    ELSE pkg.arch

add_single_package_dependency_no_selfref(idx, id, dep) ==
    the({ insert_version_set(n.index,
              [arch |-> dependency_arch(idx.solvables[id + 1], dep),
               name |-> n.id, selfref |-> <<>>, range |-> dep.range]) :
          n \in {insert_or_update_name(idx, dep.name, <<>>)} })

add_single_package_dependency(idx, id, dep) ==
    the({ insert_version_set(n.index,
              [arch |-> dependency_arch(idx.solvables[id + 1], dep),
               name |-> n.id,
               selfref |-> IF provides_name(idx.solvables[id + 1].package, dep.name)
                           THEN <<id>> ELSE <<>>,
               range |-> dep.range]) :
          n \in {insert_or_update_name(idx, dep.name, <<>>)} })

RECURSIVE add_union_alternatives(_, _, _, _, _)
\* the alternatives of a package's union dependency, interned left to right
add_union_alternatives(idx, solvable, deps, k, ids) ==
    IF k > Len(deps) THEN [index |-> idx, ids |-> ids]
    ELSE the({ add_union_alternatives(r.index, solvable, deps, k + 1,
                                      Append(ids, r.id)) :
               r \in {add_single_package_dependency(idx, solvable, deps[k])} })

add_requirement_first_alternative(idx, solvable, dep) ==
    the({ [index |-> r.index, req |-> [kind |-> "Single", id |-> r.id]] :
          r \in {add_single_package_dependency(idx, solvable, dep.alts[1])} })

\* Requirement::Single or Requirement::Union of one parsed Dependency
add_requirement(idx, solvable, dep) ==
    IF dep.kind = "Single"
    THEN the({ [index |-> r.index, req |-> [kind |-> "Single", id |-> r.id]] :
               r \in {add_single_package_dependency(idx, solvable, dep.alts[1])} })
    ELSE the({ the({ [index |-> i.index, req |-> [kind |-> "Union", id |-> i.id]] :
                     i \in {insert_union(a.index, a.ids)} }) :
               a \in {add_union_alternatives(idx, solvable, dep.alts, 1, <<>>)} })

RECURSIVE add_requirements(_, _, _, _, _)
\* pre_depends().chain(depends()).and_then(..).collect(): stops at the first
\* element that fails to parse, the earlier ones already interned
add_requirements(idx, solvable, deps, k, reqs) ==
    IF k > Len(deps) THEN [index |-> idx, ok |-> TRUE, reqs |-> reqs]
    ELSE IF ~deps[k].ok THEN [index |-> idx, ok |-> FALSE, reqs |-> reqs]
    ELSE the({ add_requirements(r.index, solvable, deps, k + 1, Append(reqs, r.req)) :
               r \in {add_requirement(idx, solvable, deps[k])} })

RECURSIVE add_constrains(_, _, _, _, _)
\* conflicts().chain(breaks()).and_then(..).collect()
add_constrains(idx, solvable, deps, k, ids) ==
    IF k > Len(deps) THEN [index |-> idx, ok |-> TRUE, ids |-> ids]
    ELSE IF ~deps[k].ok THEN [index |-> idx, ok |-> FALSE, ids |-> ids]
    ELSE the({ add_constrains(r.index, solvable, deps, k + 1, Append(ids, r.id)) :
               r \in {add_single_package_dependency(idx, solvable, deps[k].alts[1])} })

\* Dependencies::Unknown(strings.intern(message).as_id())
unknown_dependencies(u, idx, message) ==
    the({ [u |-> [interned |-> s.table, index |-> idx],
           deps |-> [known |-> FALSE, reason |-> s.id,
                     requirements |-> <<>>, constrains |-> <<>>]] :
          s \in {get_or_insert(u.interned, message)} })

add_package_constrains_ignoring_errors(u, solvable, pkg, r) ==
    the({ [u |-> [u EXCEPT !.index = c.index],
           deps |-> [known |-> TRUE, reason |-> 0,
                     requirements |-> r.reqs, constrains |-> c.ids]] :
          c \in {add_constrains(r.index, solvable,
                                pkg.package.conflicts \o pkg.package.breaks, 1, <<>>)} })

\* add_package_dependencies once the requirements r have been interned
add_package_constrains(u, solvable, pkg, r) ==
    the({ IF ~c.ok
          THEN unknown_dependencies(u, c.index,
                   "error parsing constrains for " \o full_name(pkg.package))
          ELSE [u |-> [u EXCEPT !.index = c.index],
                deps |-> [known |-> TRUE, reason |-> 0,
                          requirements |-> r.reqs, constrains |-> c.ids]] :
          c \in {add_constrains(r.index, solvable,
                                pkg.package.conflicts \o pkg.package.breaks, 1, <<>>)} })

add_package_dependencies(u, solvable) ==
    the({ the({ IF ~r.ok
                THEN unknown_dependencies(u, r.index,
                         "error parsing dependencies for " \o full_name(pkg.package))
                ELSE add_package_constrains(u, solvable, pkg, r) :
                r \in {add_requirements(u.index, solvable,
                          pkg.package.pre_depends \o pkg.package.depends, 1, <<>>)} }) :
          pkg \in {u.index.solvables[solvable + 1]} })

(***************************************************************************)
(* The provider's queries (InnerUniverse).                                 *)
(***************************************************************************)
get_candidates_always_some(idx, name) ==
    <<[candidates |-> idx.names[name + 1].packages,
       hint_dependencies_available |-> idx.names[name + 1].packages]>>

\* None (<<>>) for a name with no solvable, else Some(Candidates)
get_candidates(idx, name) ==
    LET candidates == idx.names[name + 1].packages
    IN  IF Len(candidates) = 0 THEN <<>>
        ELSE <<[candidates |-> candidates,
                hint_dependencies_available |-> candidates]>>

keep_candidate_inverting_all(idx, sid, vs, inverse) ==
    ( /\ <<sid>> # vs.selfref
      /\ satisfies(idx.solvables[sid + 1].arch, vs.arch)
      /\ \/ /\ idx.solvables[sid + 1].name = vs.name
            /\ version_satisfies(idx.solvables[sid + 1].package.version, vs.range)
         \/ \E k \in 1..Len(idx.solvables[sid + 1].package.provides) :
               /\ idx.solvables[sid + 1].package.provides[k].ok
               /\ idx.solvables[sid + 1].package.provides[k].name
                     = idx.names[vs.name + 1].name
               /\ provided_satisfies(idx.solvables[sid + 1].package.provides[k],
                                     vs.range) ) # inverse

\* the closure of filter_candidates's filter
keep_candidate(idx, sid, vs, inverse) ==
    LET solvable == idx.solvables[sid + 1]
        sname == idx.names[vs.name + 1].name
        provides == solvable.package.provides
    IN  IF <<sid>> = vs.selfref THEN FALSE
        ELSE IF ~satisfies(solvable.arch, vs.arch) THEN FALSE
        ELSE ( \/ /\ solvable.name = vs.name
                  /\ version_satisfies(solvable.package.version, vs.range)
               \/ \E k \in 1..Len(provides) :
                     /\ provides[k].ok
                     /\ provides[k].name = sname
                     /\ provided_satisfies(provides[k], vs.range) ) # inverse

filter_candidates(idx, candidates, version_set, inverse) ==
    LET vs == idx.version_sets[version_set + 1]
    IN  SelectSeq(candidates, LAMBDA sid : keep_candidate(idx, sid, vs, inverse))

get_dependencies(u, solvable) == add_package_dependencies(u, solvable)

version_set_name(idx, version_set) == idx.version_sets[version_set + 1].name

version_sets_in_union(idx, version_set_union) ==
    idx.version_set_unions[version_set_union + 1]

(***************************************************************************)
(* sort_candidates: the order in which the solver is to try candidates.    *)
(***************************************************************************)
\* str::as_bytes of the package names the model uses
as_bytes(s) ==
    CASE s = "a" -> <<97>>
      [] s = "b" -> <<98>>
      [] s = "c" -> <<99>>
      [] s = "d" -> <<100>>
      [] OTHER -> <<>>

\* Ord::cmp on integers
cmp(a, b) == IF a < b THEN "Less" ELSE IF a > b THEN "Greater" ELSE "Equal"

RECURSIVE cmp_bytes(_, _)
\* Ord::cmp on str: lexicographic on the bytes
cmp_bytes(a, b) ==
    IF Len(a) = 0 THEN (IF Len(b) = 0 THEN "Equal" ELSE "Less")
    ELSE IF Len(b) = 0 THEN "Greater"
    ELSE IF Head(a) # Head(b) THEN cmp(Head(a), Head(b))
    ELSE cmp_bytes(Tail(a), Tail(b))

cmp_candidates_native_first(idx, this, that) ==
    CASE ~satisfies(idx.solvables[this + 1].arch, idx.arch)
         /\ satisfies(idx.solvables[that + 1].arch, idx.arch) -> "Greater"
      [] satisfies(idx.solvables[this + 1].arch, idx.arch)
         /\ ~satisfies(idx.solvables[that + 1].arch, idx.arch) -> "Less"
      [] OTHER ->
           the({ IF c = "Equal"
                 THEN cmp(idx.solvables[this + 1].package.version,
                          idx.solvables[that + 1].package.version)
                 ELSE c :
                 c \in {cmp_bytes(as_bytes(idx.solvables[this + 1].package.name),
                                  as_bytes(idx.solvables[that + 1].package.name))} })

\* the comparator closure of sort_candidates
cmp_candidates(idx, this, that) ==
    CASE ~satisfies(idx.solvables[this + 1].arch, idx.arch)
         /\ satisfies(idx.solvables[that + 1].arch, idx.arch) -> "Less"
      [] satisfies(idx.solvables[this + 1].arch, idx.arch)
         /\ ~satisfies(idx.solvables[that + 1].arch, idx.arch) -> "Greater"
      [] OTHER ->
           the({ IF c = "Equal"
                 THEN cmp(idx.solvables[this + 1].package.version,
                          idx.solvables[that + 1].package.version)
                 ELSE c :
                 c \in {cmp_bytes(as_bytes(idx.solvables[this + 1].package.name),
                                  as_bytes(idx.solvables[that + 1].package.name))} })

RECURSIVE insert_candidate(_, _, _, _)
\* x goes behind the last of the first k sorted elements that is not greater
insert_candidate(idx, sorted, x, k) ==
    IF k = 0 \/ cmp_candidates(idx, sorted[k], x) # "Greater"
    THEN SubSeq(sorted, 1, k) \o <<x>> \o SubSeq(sorted, k + 1, Len(sorted))
    ELSE insert_candidate(idx, sorted, x, k - 1)

RECURSIVE sort_by(_, _, _, _)
\* slice::sort_by with the comparator: a stable sort
sort_by(idx, v, k, sorted) ==
    IF k > Len(v) THEN sorted
    ELSE the({ sort_by(idx, v, k + 1, s1) :
               s1 \in {insert_candidate(idx, sorted, v[k], Len(sorted))} })

sort_candidates(idx, solvables) == sort_by(idx, solvables, 1, <<>>)

(***************************************************************************)
(* The dependency graph of a solution and its ordering.                    *)
(***************************************************************************)
RECURSIVE flatten(_)
\* Iterator::flat_map over a sequence of sequences
flatten(ss) == IF Len(ss) = 0 THEN <<>> ELSE Head(ss) \o flatten(Tail(ss))

\* the version-sets of one requirement, a union flattened in its order
requirement_version_sets(idx, req) ==
    IF req.kind = "Single" THEN <<req.id>>
    ELSE version_sets_in_union(idx, req.id)

\* the candidates recorded under a version-set's name
version_set_candidates(idx, vs) ==
    the({ IF c = <<>> THEN <<>> ELSE c[1].candidates :
          c \in {get_candidates(idx, version_set_name(idx, vs))} })

package_edges_unfiltered(idx, solution, package, requirements) ==
    the({ the({ [i \in 1..Len(kept) |-> <<package, kept[i]>>] :
                kept \in {flatten([i \in 1..Len(version_sets) |->
                                      version_set_candidates(idx, version_sets[i])])} }) :
          version_sets \in {flatten([i \in 1..Len(requirements) |->
                                requirement_version_sets(idx, requirements[i])])} })

package_edges_reversed(idx, solution, package, requirements) ==
    the({ the({ [i \in 1..Len(kept) |-> <<kept[i], package>>] :
                kept \in {SelectSeq(
                    flatten([i \in 1..Len(version_sets) |->
                                version_set_candidates(idx, version_sets[i])]),
                    LAMBDA sid : sid # package
                                 /\ \E i \in 1..Len(solution) : solution[i] = sid)} }) :
          version_sets \in {flatten([i \in 1..Len(requirements) |->
                                requirement_version_sets(idx, requirements[i])])} })

\* the edges one member of the solution contributes, in iteration order
package_edges(idx, solution, package, requirements) ==
    the({ the({ [i \in 1..Len(kept) |-> <<package, kept[i]>>] :
                kept \in {SelectSeq(
                    flatten([i \in 1..Len(version_sets) |->
                                version_set_candidates(idx, version_sets[i])]),
                    LAMBDA sid : sid # package
                                 /\ \E i \in 1..Len(solution) : solution[i] = sid)} }) :
          version_sets \in {flatten([i \in 1..Len(requirements) |->
                                requirement_version_sets(idx, requirements[i])])} })

\* DiGraphMap::add_edge: both endpoints become nodes, a repeated edge is kept once
add_node(nodes, n) == IF Contains(nodes, n) THEN nodes ELSE Append(nodes, n)

add_edge(g, a, b) ==
    IF Contains(g.edges, <<a, b>>) THEN g
    ELSE [nodes |-> add_node(add_node(g.nodes, a), b),
          edges |-> Append(g.edges, <<a, b>>)]

RECURSIVE from_edges(_, _, _)
\* DiGraphMap::from_edges
from_edges(g, edges, k) ==
    IF k > Len(edges) THEN g
    ELSE the({ from_edges(g1, edges, k + 1) :
               g1 \in {add_edge(g, edges[k][1], edges[k][2])} })

RECURSIVE solution_edges(_, _, _, _)
\* the flat_map over the sorted solution; a member whose dependencies are
\* Unknown reaches unreachable!()
solution_edges(u, solution, k, edges) ==
    IF k > Len(solution) THEN [u |-> u, panicked |-> FALSE, edges |-> edges]
    ELSE the({ IF ~d.deps.known THEN [u |-> d.u, panicked |-> TRUE, edges |-> edges]
               ELSE solution_edges(d.u, solution, k + 1,
                        edges \o package_edges(d.u.index, solution, solution[k],
                                               d.deps.requirements)) :
               d \in {get_dependencies(u, solution[k])} })

\* the graph of the collected edges; none is built when the collection panicked
edges_graph(e, sorted) ==
    [u |-> e.u, solution |-> sorted, panicked |-> e.panicked,
     graph |-> IF e.panicked THEN [nodes |-> <<>>, edges |-> <<>>]
               ELSE from_edges([nodes |-> <<>>, edges |-> <<>>], e.edges, 1)]

\* sorts the caller's slice, then builds the graph from the edges
dependency_graph(u, solution) ==
    the({ the({ edges_graph(e, sorted) : e \in {solution_edges(u, sorted, 1, <<>>)} }) :
          sorted \in {SortSeq(solution, LAMBDA a, b : a < b)} })

\* GraphMap::neighbors, or neighbors_directed(Incoming) of Reversed(g)
neighbors(g, n, reversed) ==
    the({ [i \in 1..Len(mine) |-> mine[i][IF reversed THEN 1 ELSE 2]] :
          mine \in {SelectSeq(g.edges, LAMBDA e : e[IF reversed THEN 2 ELSE 1] = n)} })

\* the loop pushing a node's not yet discovered successors
push_successors(stack, g, n, reversed, discovered) ==
    stack \o SelectSeq(neighbors(g, n, reversed), LAMBDA succ : succ \notin discovered)

\* Vec::pop on the walker's stack
pop(dfs) == [dfs EXCEPT !.stack = SubSeq(@, 1, Len(@) - 1)]

\* discovered.visit(n) followed by the loop pushing n's successors
discover(g, dfs, n, reversed) ==
    [dfs EXCEPT !.discovered = @ \cup {n},
                !.stack = push_successors(@, g, n, reversed, dfs.discovered \cup {n})]

RECURSIVE DfsPostOrder_next(_, _)
\* DfsPostOrder::next on Reversed(g)
DfsPostOrder_next(g, dfs) ==
    IF Len(dfs.stack) = 0 THEN [dfs |-> dfs, item |-> <<>>]
    ELSE the({ IF nx \notin dfs.discovered
               THEN the({ DfsPostOrder_next(g, d) : d \in {discover(g, dfs, nx, TRUE)} })
               ELSE IF nx \notin dfs.finished
               THEN [dfs |-> [pop(dfs) EXCEPT !.finished = @ \cup {nx}], item |-> <<nx>>]
               ELSE the({ DfsPostOrder_next(g, d) : d \in {pop(dfs)} }) :
               nx \in {dfs.stack[Len(dfs.stack)]} })

RECURSIVE Dfs_next(_, _)
\* Dfs::next on g
Dfs_next(g, dfs) ==
    IF Len(dfs.stack) = 0 THEN [dfs |-> dfs, item |-> <<>>]
    ELSE the({ IF node \notin dfs.discovered
               THEN [dfs |-> discover(g, pop(dfs), node, FALSE), item |-> <<node>>]
               ELSE the({ Dfs_next(g, d) : d \in {pop(dfs)} }) :
               node \in {dfs.stack[Len(dfs.stack)]} })

RECURSIVE drain_post_order(_, _, _)
\* while let Some(nx) = dfs.next(Reversed(g)) { finish_order.push(nx) }
drain_post_order(g, dfs, finish_order) ==
    the({ IF r.item = <<>> THEN [dfs |-> r.dfs, order |-> finish_order]
          ELSE drain_post_order(g, r.dfs, Append(finish_order, r.item[1])) :
          r \in {DfsPostOrder_next(g, dfs)} })

RECURSIVE drain_dfs(_, _, _)
\* while let Some(nx) = dfs.next(g) { scc.push(nx) }
drain_dfs(g, dfs, scc) ==
    the({ IF r.item = <<>> THEN [dfs |-> r.dfs, order |-> scc]
          ELSE drain_dfs(g, r.dfs, Append(scc, r.item[1])) :
          r \in {Dfs_next(g, dfs)} })

RECURSIVE finish_order(_, _, _, _)
\* first phase of kosaraju_scc: finishing times of a depth-first pass over
\* the reversed graph, started from each node in insertion order
finish_order(g, k, dfs, order) ==
    IF k > Len(g.nodes) THEN order
    ELSE IF g.nodes[k] \in dfs.discovered THEN finish_order(g, k + 1, dfs, order)
    ELSE the({ finish_order(g, k + 1, r.dfs, r.order) :
               r \in {drain_post_order(g, [dfs EXCEPT !.stack = <<g.nodes[k]>>],
                                       order)} })

RECURSIVE collect_sccs(_, _, _, _, _)
\* second phase: one depth-first pass per leader, in decreasing finishing time
collect_sccs(g, order, k, dfs, sccs) ==
    IF k < 1 THEN sccs
    ELSE IF order[k] \in dfs.discovered THEN collect_sccs(g, order, k - 1, dfs, sccs)
    ELSE the({ collect_sccs(g, order, k - 1, r.dfs, Append(sccs, r.order)) :
               r \in {drain_dfs(g, [dfs EXCEPT !.stack = <<order[k]>>], <<>>)} })

\* the walkers' state before the first node is visited
EmptyDfs == [stack |-> <<>>, discovered |-> {}, finished |-> {}]

\* petgraph::algo::kosaraju_scc
kosaraju_scc(g) ==
    the({ collect_sccs(g, order, Len(order), EmptyDfs, <<>>) :
          order \in {finish_order(g, 1, EmptyDfs, <<>>)} })

sort_solution_leaders(u, solution) ==
    the({ the({ [u |-> g.u, solution |-> g.solution, panicked |-> g.panicked,
                 order |-> [i \in 1..Len(sccs) |-> sccs[i][1]]] :
                sccs \in {kosaraju_scc(g.graph)} }) :
          g \in {dependency_graph(u, solution)} })

sort_solution_by_id(u, solution) ==
    the({ [u |-> g.u, solution |-> g.solution, panicked |-> g.panicked,
           order |-> IF g.panicked THEN <<>> ELSE g.solution] :
          g \in {dependency_graph(u, solution)} })

sort_solution(u, solution) ==
    the({ [u |-> g.u, solution |-> g.solution, panicked |-> g.panicked,
           order |-> flatten(kosaraju_scc(g.graph))] :
          g \in {dependency_graph(u, solution)} })

(***************************************************************************)
(* The problem builder.                                                    *)
(***************************************************************************)
RECURSIVE intern_requirements(_, _, _, _)
\* the map over the user's requirements of Universe::problem
intern_requirements(u, requirements, k, reqs) ==
    IF k > Len(requirements) THEN [u |-> u, reqs |-> reqs]
    ELSE IF requirements[k].kind = "Single"
    THEN the({ intern_requirements(r.u, requirements, k + 1,
                   Append(reqs, [kind |-> "Single", id |-> r.id])) :
               r \in {intern_version_set(u, requirements[k].alts[1])} })
    ELSE the({ intern_requirements(r.u, requirements, k + 1,
                   Append(reqs, [kind |-> "Union", id |-> r.id])) :
               r \in {get_union_dependency_id(u, requirements[k].alts)} })

problem_baseline_first(u, requirements, constraints) ==
    the({ the({ [u |-> c.u,
                 problem |-> [requirements |-> u.index.required \o r.reqs,
                              constraints |-> c.ids]] :
                c \in {intern_version_sets(r.u, constraints, 1, <<>>)} }) :
          r \in {intern_requirements(u, requirements, 1, <<>>)} })

problem(u, requirements, constraints) ==
    the({ the({ [u |-> c.u,
                 problem |-> [requirements |-> r.reqs \o u.index.required,
                              constraints |-> c.ids]] :
                c \in {intern_version_sets(r.u, constraints, 1, <<>>)} }) :
          r \in {intern_requirements(u, requirements, 1, <<>>)} })

(***************************************************************************)
(* The clause solver's contract (resolvo), as the provider sees it: every  *)
(* requirement of the problem and of each selected solvable has a selected *)
(* candidate that filter_candidates keeps, no selected solvable is among   *)
(* the candidates filter_candidates (inverse) names for a constrain, and   *)
(* nothing is selected that no requirement asked for.                      *)
(***************************************************************************)
SeqToSet(seq) == {seq[i] : i \in 1..Len(seq)}

SolvableIds(idx) == 0..(Len(idx.solvables) - 1)

matching(idx, vs) ==
    SeqToSet(filter_candidates(idx, version_set_candidates(idx, vs), vs, FALSE))

excluded(idx, vs) ==
    SeqToSet(filter_candidates(idx, version_set_candidates(idx, vs), vs, TRUE))

requirement_candidates(idx, req) ==
    UNION {matching(idx, vs) : vs \in SeqToSet(requirement_version_sets(idx, req))}

selected_ok(u, S, s) ==
    \E d \in {get_dependencies(u, s)} :
        /\ d.deps.known
        /\ \A i \in 1..Len(d.deps.requirements) :
              requirement_candidates(d.u.index, d.deps.requirements[i]) \cap S # {}
        /\ \A i \in 1..Len(d.deps.constrains) :
              excluded(d.u.index, d.deps.constrains[i]) \cap S = {}

is_solution(u, p, S) ==
    /\ \A i \in 1..Len(p.requirements) :
          requirement_candidates(u.index, p.requirements[i]) \cap S # {}
    /\ \A i \in 1..Len(p.constraints) : excluded(u.index, p.constraints[i]) \cap S = {}
    /\ \A s \in S : selected_ok(u, S, s)

\* the members of S that a requirement of the solvable s asks for
asked_by(u, S, s) ==
    UNION {UNION {requirement_candidates(d.u.index, d.deps.requirements[i]) \cap S :
                     i \in 1..Len(d.deps.requirements)} :
              d \in {get_dependencies(u, s)}}

RECURSIVE asked_for(_, _, _, _)
\* the members of S reached from J in at most n steps of asked_by
asked_for(u, S, J, n) ==
    IF n = 0 THEN J
    ELSE the({ asked_for(u, S, J1, n - 1) :
               J1 \in {J \cup UNION {asked_by(u, S, s) : s \in J}} })

is_supported(u, p, S) ==
    \E roots \in {UNION {requirement_candidates(u.index, p.requirements[i]) \cap S :
                             i \in 1..Len(p.requirements)}} :
        asked_for(u, S, roots, Cardinality(S)) = S

solutions(u, p) ==
    {S \in SUBSET SolvableIds(u.index) : is_solution(u, p, S) /\ is_supported(u, p, S)}

(***************************************************************************)
(* The state machine.                                                      *)
(***************************************************************************)
U == [interned |-> interned, index |-> index]

Ingested == Len(index.solvables)

\* Universe::new up to the ingestion loop
InitWith(arch) ==
    /\ pc = "new"
    /\ packages = <<>>
    /\ interned = <<arch>>
    /\ index = [EmptyIndex EXCEPT !.archlist = get_or_insert(<<"any">>, arch).table,
                                  !.arch = get_or_insert(<<"any">>, arch).id]
    /\ required = <<>>
    /\ prob = <<>>
    /\ calls = 0
    /\ out = [op |-> "none"]

\* one turn of the ingestion loop of Universe::new: the next package of the
\* current package set, or the first of the next set
AddPackage(package, next_set) ==
    /\ pc = "new"
    /\ Ingested < MaxPackages
    /\ next_set \/ Len(packages) > 0
    /\ \E sets \in {IF next_set THEN Append(packages, <<>>) ELSE packages} :
       \E r \in {add_package(index, Len(sets) - 1, required, package)} :
           /\ packages' = [sets EXCEPT ![Len(sets)] = Append(@, package)]
           /\ index' = r.index
           /\ required' = r.required
           /\ pc' = IF r.ok THEN "new" ELSE "failed"
    /\ UNCHANGED <<interned, prob, calls, out>>

\* the seeding loop that ends Universe::new
FinishNew ==
    /\ pc = "new"
    /\ index' = seed_required(index, required, 1)
    /\ pc' = "ready"
    /\ UNCHANGED <<packages, interned, required, prob, calls, out>>

\* Universe::problem; prob keeps each problem built, with what was asked
Problem(requirements, constraints) ==
    /\ pc = "ready"
    /\ Len(prob) < MaxProblems
    /\ \E r \in {problem(U, requirements, constraints)} :
           /\ interned' = r.u.interned
           /\ index' = r.u.index
           /\ prob' = Append(prob, [asked |-> [requirements |-> requirements,
                                              constraints |-> constraints],
                                    problem |-> r.problem, moved |-> FALSE])
           /\ out' = [op |-> "problem", requirements |-> requirements,
                      constraints |-> constraints, problem |-> r.problem]
    /\ UNCHANGED <<pc, packages, required, calls>>

RECURSIVE ask_dependencies(_, _, _)
\* the solver's get_dependencies queries, in the order it makes them
ask_dependencies(u, order, k) ==
    IF k > Len(order) THEN u
    ELSE the({ ask_dependencies(d.u, order, k + 1) :
               d \in {get_dependencies(u, order[k])} })

\* the orders in which the members of Q can be asked about
Orders(Q) ==
    {f \in [1..Cardinality(Q) -> Q] : \A i, j \in 1..Cardinality(Q) : f[i] = f[j] => i = j}

\* what Universe::solve hands back, with what the solver was told on the way
solve_result(p, Q, u, solved, S) ==
    [op |-> "solve", asked |-> prob[p].asked, problem |-> prob[p].problem,
     queried |-> Q, dependencies |-> [s \in Q |-> get_dependencies(u, s).deps],
     solved |-> solved, solution |-> S]

\* Universe::solve on a problem built earlier, which it consumes: the solver
\* asks for the dependencies of the solvables Q it looks at, in some order,
\* and returns a solution among them, or Unsolvable when the problem has none
Solve(p) ==
    /\ pc = "ready"
    /\ p \in 1..Len(prob)
    /\ ~prob[p].moved
    /\ \E sols \in {solutions(U, prob[p].problem)} :
       \E Q \in SUBSET SolvableIds(index) :
       \E order \in Orders(Q) :
       \E u \in {ask_dependencies(U, order, 1)} :
           /\ interned' = u.interned
           /\ index' = u.index
           /\ \/ \E S \in sols :
                    /\ S \subseteq Q
                    /\ out' = solve_result(p, Q, u, TRUE, S)
              \/ /\ sols = {}
                 /\ out' = solve_result(p, Q, u, FALSE, {})
    /\ prob' = [prob EXCEPT ![p].moved = TRUE]
    /\ UNCHANGED <<pc, packages, required, calls>>

GetCandidates(name) ==
    /\ pc = "ready"
    /\ calls < MaxCalls
    /\ calls' = calls + 1
    /\ name \in 0..(Len(index.names) - 1)
    /\ out' = [op |-> "get_candidates", name |-> name,
               result |-> get_candidates(index, name)]
    /\ UNCHANGED <<pc, packages, interned, index, required, prob>>

FilterCandidates(candidates, version_set, inverse) ==
    /\ pc = "ready"
    /\ calls < MaxCalls
    /\ calls' = calls + 1
    /\ version_set \in 0..(Len(index.version_sets) - 1)
    /\ out' = [op |-> "filter_candidates", candidates |-> candidates,
               version_set |-> version_set, inverse |-> inverse,
               result |-> filter_candidates(index, candidates, version_set, inverse)]
    /\ UNCHANGED <<pc, packages, interned, index, required, prob>>

GetDependencies(solvable) ==
    /\ pc = "ready"
    /\ solvable \in SolvableIds(index)
    /\ \E r \in {get_dependencies(U, solvable)} :
           /\ interned' = r.u.interned
           /\ index' = r.u.index
           /\ out' = [op |-> "get_dependencies", solvable |-> solvable,
                      result |-> r.deps]
    /\ UNCHANGED <<pc, packages, required, prob, calls>>

DependencyGraph(solution) ==
    /\ pc = "ready"
    /\ calls < MaxCalls
    /\ calls' = calls + 1
    /\ \E r \in {dependency_graph(U, solution)} :
           /\ interned' = r.u.interned
           /\ index' = r.u.index
           /\ out' = [op |-> "dependency_graph", input |-> solution,
                      solution |-> r.solution, panicked |-> r.panicked,
                      graph |-> r.graph]
    /\ UNCHANGED <<pc, packages, required, prob>>

SortSolution(solution) ==
    /\ pc = "ready"
    /\ calls < MaxCalls
    /\ calls' = calls + 1
    /\ \E r \in {sort_solution(U, solution)} :
           /\ interned' = r.u.interned
           /\ index' = r.u.index
           /\ out' = [op |-> "sort_solution", input |-> solution,
                      solution |-> r.solution, panicked |-> r.panicked,
                      order |-> r.order]
    /\ UNCHANGED <<pc, packages, required, prob>>

SortCandidates(solvables) ==
    /\ pc = "ready"
    /\ calls < MaxCalls
    /\ calls' = calls + 1
    /\ out' = [op |-> "sort_candidates", input |-> solvables,
               result |-> sort_candidates(index, solvables)]
    /\ UNCHANGED <<pc, packages, interned, index, required, prob>>

(***************************************************************************)
(* Inputs: parsed packages and user-level dependencies.                    *)
(***************************************************************************)
\* a parsed Package with no relations
Pkg(name, arch, version) ==
    [name |-> name, architecture |-> arch, version |-> version,
     essential |-> FALSE, required |-> FALSE, provides |-> <<>>,
     pre_depends |-> <<>>, depends |-> <<>>, conflicts |-> <<>>, breaks |-> <<>>]

\* a parsed Constraint: optional arch qualifier, name, range
Con(arch, name, range) == [arch |-> arch, name |-> name, range |-> range]

On(name) == Con(<<>>, name, AnyRange)

\* Dependency::Single, Dependency::Union and an element that fails to parse
Single(c) == [ok |-> TRUE, kind |-> "Single", alts |-> <<c>>]

Union(cs) == [ok |-> TRUE, kind |-> "Union", alts |-> cs]

ParseError == [ok |-> FALSE, kind |-> "Single", alts |-> <<>>]

\* a Provides entry: ProvidedName::Any(name) or ProvidedName::Exact(name, v)
Provided(name) == [ok |-> TRUE, name |-> name, version |-> <<>>]

ProvidedExact(name, v) == [ok |-> TRUE, name |-> name, version |-> <<v>>]

(***************************************************************************)
(* SeedSpec: construction from essential and required packages, one or     *)
(* several package sets, then problems and solving.                        *)
(***************************************************************************)
Essential(package) == [package EXCEPT !.essential = TRUE]

Required(package) == [package EXCEPT !.required = TRUE]

SeedCatalogue ==
    { [Pkg("a", "amd64", 1) EXCEPT !.provides = <<Provided("b")>>],
      Essential(Pkg("b", "amd64", 1)),
      Required(Pkg("b", "amd64", 2)),
      Pkg("b", "amd64", 2),
      Required([Pkg("c", "all", 1) EXCEPT !.depends = <<Single(On("a"))>>]) }

SeedRequirements ==
    { <<>>,
      <<Single(On("a"))>>,
      <<Union(<<Con(<<"any">>, "b", exact_range(2)), On("c")>>), Single(On("a"))>> }

SeedConstraints == { <<>>, <<Con(<<>>, "b", exact_range(1)), On("d")>> }

Init == InitWith("amd64")

SeedNext ==
    \/ \E p \in SeedCatalogue, next_set \in BOOLEAN : AddPackage(p, next_set)
    \/ FinishNew
    \/ \E r \in SeedRequirements, c \in SeedConstraints : Problem(r, c)
    \/ \E p \in 1..Len(prob) : Solve(p)

SeedSpec == Init /\ [][SeedNext]_vars

(***************************************************************************)
(* Spec: construction, problems and solving over packages that provide,    *)
(* break, conflict with and depend on one another.                         *)
(***************************************************************************)
SolveCatalogue ==
    { [Pkg("a", "amd64", 1) EXCEPT !.provides = <<Provided("b")>>,
                                   !.breaks = <<Single(Con(<<>>, "b", NoneRange))>>],
      [Pkg("a", "amd64", 1) EXCEPT !.conflicts = <<Single(Con(<<>>, "c", NoneRange))>>],
      [Pkg("a", "amd64", 1) EXCEPT
          !.depends = <<Union(<<Con(<<>>, "b", exact_range(2)), On("c")>>)>>],
      [Pkg("a", "amd64", 1) EXCEPT
          !.depends = <<Union(<<On("c"), Con(<<>>, "b", exact_range(2))>>)>>],
      Pkg("b", "amd64", 1),
      Pkg("b", "amd64", 2),
      Pkg("c", "amd64", 1) }

SolveRequirements == { <<>>, <<Single(On("a"))>>, <<Single(On("a")), Single(On("b"))>> }

SolveConstraints == { <<>>, <<Con(<<>>, "b", exact_range(1))>> }

Next ==
    \/ \E p \in SolveCatalogue : AddPackage(p, packages = <<>>)
    \/ FinishNew
    \/ \E r \in SolveRequirements, c \in SolveConstraints : Problem(r, c)
    \/ \E p \in 1..Len(prob) : Solve(p)

Spec == Init /\ [][Next]_vars

(***************************************************************************)
(* GraphSpec: construction, then dependency graphs and install orders of   *)
(* solutions given in any order, with or without repeated members.         *)
(***************************************************************************)
GraphCatalogue ==
    { [Pkg("a", "amd64", 1) EXCEPT !.depends = <<Single(On("b"))>>],
      [Pkg("b", "amd64", 1) EXCEPT !.depends = <<Single(On("a"))>>],
      [Pkg("b", "amd64", 2) EXCEPT !.pre_depends = <<Union(<<On("c"), On("d")>>)>>],
      [Pkg("c", "all", 1) EXCEPT !.provides = <<Provided("b")>>,
                                 !.depends = <<Single(Con(<<>>, "b", exact_range(2)))>>],
      Pkg("c", "amd64", 2),
      [Pkg("c", "amd64", 1) EXCEPT !.depends = <<Single(On("a")), ParseError>>] }

\* the slices a caller can pass: solvable ids in any order, repeats allowed
Solutions(ids) == UNION {[1..n -> ids] : n \in 0..MaxSolution}

GraphNext ==
    \/ \E p \in GraphCatalogue : AddPackage(p, packages = <<>>)
    \/ FinishNew
    \/ \E solution \in Solutions(SolvableIds(index)) : DependencyGraph(solution)
    \/ \E solution \in Solutions(SolvableIds(index)) : SortSolution(solution)

GraphSpec == Init /\ [][GraphNext]_vars

(***************************************************************************)
(* FilterSpec: construction over several architectures, the solver's       *)
(* get_dependencies queries, and filter_candidates on any candidate list.  *)
(***************************************************************************)
FilterCatalogue ==
    { [Pkg("a", "amd64", 1) EXCEPT
          !.depends = <<Single(Con(<<>>, "b", [op |-> ">=", v |-> 2]))>>],
      [Pkg("a", "arm64", 2) EXCEPT
          !.provides = <<Provided("b")>>,
          !.depends = <<Single(Con(<<"any">>, "b", AnyRange))>>],
      Pkg("b", "all", 2),
      Pkg("b", "arm64", 1),
      [Pkg("c", "amd64", 1) EXCEPT
          !.provides = <<ProvidedExact("b", 1)>>,
          !.breaks = <<Single(Con(<<>>, "b", [op |-> "<<", v |-> 2]))>>] }

\* the candidate slices the solver can pass: solvable ids, repeats allowed
CandidateLists(ids) == UNION {[1..n -> ids] : n \in 0..MaxCandidates}

FilterNext ==
    \/ \E p \in FilterCatalogue : AddPackage(p, packages = <<>>)
    \/ FinishNew
    \/ \E s \in SolvableIds(index) : GetDependencies(s)
    \/ \E candidates \in CandidateLists(SolvableIds(index)),
          version_set \in 0..(Len(index.version_sets) - 1),
          inverse \in BOOLEAN : FilterCandidates(candidates, version_set, inverse)

FilterSpec == Init /\ [][FilterNext]_vars

(***************************************************************************)
(* DependenciesSpec: construction over several architectures from packages *)
(* whose relations carry arch qualifiers, alternatives and elements that   *)
(* fail to parse; then get_dependencies and sort_candidates.               *)
(***************************************************************************)
DependenciesCatalogue ==
    { Essential([Pkg("a", "amd64", 1) EXCEPT
          !.provides = <<Provided("b")>>,
          !.depends = <<Single(Con(<<"arm64">>, "b", AnyRange))>>]),
      [Pkg("b", "arm64", 1) EXCEPT
          !.pre_depends = <<Union(<<On("c"), Con(<<"any">>, "a", AnyRange)>>)>>,
          !.depends = <<Single(On("d"))>>,
          !.conflicts = <<Single(On("c"))>>,
          !.breaks = <<Single(Con(<<>>, "a", [op |-> "<<", v |-> 2]))>>],
      [Pkg("c", "all", 2) EXCEPT !.depends = <<Single(On("a")), ParseError>>],
      [Pkg("c", "amd64", 1) EXCEPT !.pre_depends = <<Single(On("d"))>>,
                                   !.breaks = <<ParseError>>] }

DependenciesNext ==
    \/ \E p \in DependenciesCatalogue : AddPackage(p, packages = <<>>)
    \/ FinishNew
    \/ \E s \in SolvableIds(index) : GetDependencies(s)
    \/ \E solvables \in Solutions(SolvableIds(index)) : SortCandidates(solvables)

DependenciesSpec == Init /\ [][DependenciesNext]_vars

(***************************************************************************)
(* FrameSpec: construction, then every call a finished universe answers:   *)
(* problem, the provider's queries, graphs and orders.                     *)
(***************************************************************************)
FrameCatalogue ==
    { Essential([Pkg("a", "amd64", 1) EXCEPT
          !.depends = <<Union(<<On("b"), On("c")>>)>>,
          !.breaks = <<Single(On("d"))>>]),
      [Pkg("b", "amd64", 1) EXCEPT !.provides = <<Provided("c")>>,
                                   !.depends = <<Single(On("a"))>>],
      [Pkg("c", "all", 2) EXCEPT !.depends = <<ParseError>>] }

FrameRequirements ==
    { <<>>, <<Single(On("a")), Union(<<On("b"), Con(<<"arm64">>, "d", exact_range(2))>>)>> }

FrameConstraints == { <<>>, <<Con(<<>>, "b", exact_range(1))>> }

FrameNext ==
    \/ \E p \in FrameCatalogue : AddPackage(p, packages = <<>>)
    \/ FinishNew
    \/ \E r \in FrameRequirements, c \in FrameConstraints : Problem(r, c)
    \/ \E name \in 0..(Len(index.names) - 1) : GetCandidates(name)
    \/ \E candidates \in CandidateLists(SolvableIds(index)),
          version_set \in 0..(Len(index.version_sets) - 1),
          inverse \in BOOLEAN : FilterCandidates(candidates, version_set, inverse)
    \/ \E s \in SolvableIds(index) : GetDependencies(s)
    \/ \E solvables \in CandidateLists(SolvableIds(index)) : SortCandidates(solvables)
    \/ \E solution \in CandidateLists(SolvableIds(index)) : DependencyGraph(solution)
    \/ \E solution \in CandidateLists(SolvableIds(index)) : SortSolution(solution)

FrameSpec == Init /\ [][FrameNext]_vars

(***************************************************************************)
(* Essential and required packages in solutions.                           *)
(***************************************************************************)
\* the essential or required solvables of the universe
RequiredSolvables ==
    {s \in SolvableIds(index) : is_required(index.solvables[s + 1].package)}

\* C1, in its weakest reading: every successful solution holds, for each
\* package marked essential or required, that package or another essential or
\* required package of the same name, whatever else shares or provides the name
C1_EssentialNameInEverySolution ==
    (out.op = "solve" /\ out.solved) =>
        \A s \in RequiredSolvables :
            \E t \in out.solution \cap RequiredSolvables :
                index.solvables[t + 1].name = index.solvables[s + 1].name

(***************************************************************************)
(* Solutions of a single requirement.                                      *)
(***************************************************************************)
\* the solvable s is named, or provides, what the declared constraint dep asks
offers(s, dep) ==
    \/ /\ index.solvables[s + 1].package.name = dep.name
       /\ version_satisfies(index.solvables[s + 1].package.version, dep.range)
    \/ \E k \in 1..Len(index.solvables[s + 1].package.provides) :
          /\ index.solvables[s + 1].package.provides[k].name = dep.name
          /\ provided_satisfies(index.solvables[s + 1].package.provides[k], dep.range)

\* the solvables that declare the name n: their own name, or a Provides entry
declaring(n) ==
    {s \in SolvableIds(index) : provides_name(index.solvables[s + 1].package, n)}

\* the one requirement of the problem solved names P and nothing else: P is
\* the only solvable of its name, no constraint is given, nothing is seeded
requiring(P) ==
    /\ out.op = "solve"
    /\ out.asked.requirements = <<Single(On(index.solvables[P + 1].package.name))>>
    /\ out.asked.constraints = <<>>
    /\ declaring(index.solvables[P + 1].package.name) = {P}
    /\ index.required = <<>>

\* the Pre-Depends and Depends of a solvable, and its Conflicts and Breaks
requires_of(s) ==
    index.solvables[s + 1].package.pre_depends \o index.solvables[s + 1].package.depends

constrains_of(s) ==
    index.solvables[s + 1].package.conflicts \o index.solvables[s + 1].package.breaks

\* C6: for a package P that declares Provides: Q and Breaks: Q or Conflicts: Q,
\* the constrain version-set handed to the solver for P carries P as self-ref
\* and filter_candidates, inverse or not, never returns P for it; and when P
\* requires nothing, requiring P yields the solution {P}
C6_SelfProvideSelfBreak ==
    \A P \in SolvableIds(index) :
    \A i \in 1..Len(constrains_of(P)) :
        ( /\ out.op = "solve"
          /\ P \in declaring(constrains_of(P)[i].alts[1].name)
          /\ constrains_of(P)[i].alts[1].name # index.solvables[P + 1].package.name )
        => /\ P \in out.queried =>
                 \E vs \in {out.dependencies[P].constrains[i]} :
                     /\ index.version_sets[vs + 1].selfref = <<P>>
                     /\ \A inverse \in BOOLEAN :
                           P \notin SeqToSet(filter_candidates(index,
                                       version_set_candidates(index, vs), vs, inverse))
           /\ (requiring(P) /\ requires_of(P) = <<>>)
                 => out.solved /\ out.solution = {P}

\* P, providing and breaking b, was required alone and asked about
C6_Witness ==
    \E P \in SolvableIds(index) :
        /\ requiring(P)
        /\ P \in out.queried
        /\ Len(index.solvables) > 1
        /\ \E i \in 1..Len(constrains_of(P)) :
              /\ constrains_of(P)[i].alts[1].name # index.solvables[P + 1].package.name
              /\ P \in declaring(constrains_of(P)[i].alts[1].name)

\* C7: for a package P whose only mention of the name Q is Conflicts: Q or
\* Breaks: Q, in a universe where no package is named or provides Q, the name
\* Q exists with empty lists once the solver asked about P, get_candidates of
\* Q is None, and when P requires nothing, requiring P yields the solution {P}
C7_AbsentConflict ==
    \A P \in SolvableIds(index) :
    \A i \in 1..Len(constrains_of(P)) :
        ( /\ out.op = "solve"
          /\ declaring(constrains_of(P)[i].alts[1].name) = {}
          /\ \A k \in 1..Len(requires_of(P)) : \A j \in 1..Len(requires_of(P)[k].alts) :
                requires_of(P)[k].alts[j].name # constrains_of(P)[i].alts[1].name )
        => /\ P \in out.queried =>
                 \E Q \in {version_set_name(index, out.dependencies[P].constrains[i])} :
                     /\ index.names[Q + 1].name = constrains_of(P)[i].alts[1].name
                     /\ index.names[Q + 1].packages = <<>>
                     /\ index.names[Q + 1].required = <<>>
                     /\ get_candidates(index, Q) = <<>>
           /\ (requiring(P) /\ requires_of(P) = <<>>)
                 => out.solved /\ out.solution = {P}

\* P, conflicting with the absent c, was required alone and asked about
C7_Witness ==
    \E P \in SolvableIds(index) :
        /\ requiring(P)
        /\ P \in out.queried
        /\ Len(index.solvables) > 1
        /\ \E i \in 1..Len(constrains_of(P)) :
              declaring(constrains_of(P)[i].alts[1].name) = {}

\* the solvables other than P that offer the alternative k of P's one union
present(P, k) ==
    {s \in SolvableIds(index) \ {P} : offers(s, requires_of(P)[1].alts[k])}

\* C8: for a package P whose one dependency is a union of two alternatives,
\* exactly one of which is offered, by one solvable c that requires nothing,
\* requiring P yields the solution {P, c}, whichever position c's alternative
\* holds in the union
C8_UnionOfOnePresent ==
    \A P \in SolvableIds(index) :
    \A k \in 1..2 :
    \A c \in SolvableIds(index) :
        ( /\ requiring(P)
          /\ Len(requires_of(P)) = 1
          /\ requires_of(P)[1].kind = "Union"
          /\ Len(requires_of(P)[1].alts) = 2
          /\ present(P, k) = {c}
          /\ present(P, 3 - k) = {}
          /\ requires_of(c) = <<>> )
        => out.solved /\ out.solution = {P, c}

\* P's union was met by its second alternative, the first name having only a
\* candidate of another version
C8_Witness ==
    \E P \in SolvableIds(index) :
        /\ requiring(P)
        /\ Len(requires_of(P)) = 1
        /\ requires_of(P)[1].kind = "Union"
        /\ present(P, 1) = {}
        /\ declaring(requires_of(P)[1].alts[1].name) # {}
        /\ \E c \in SolvableIds(index) : present(P, 2) = {c} /\ out.solution = {P, c}

(***************************************************************************)
(* Architectures and candidate filtering.                                  *)
(***************************************************************************)
\* the ArchIds of the universe: Any and one per architecture of the archlist
ArchIds == 0..(Len(index.archlist) - 1)

\* x is Any, y is Any, or x equals y
arch_compatible(x, y) == x = ArchAny \/ y = ArchAny \/ x = y

\* the candidate c is the version-set's self-ref
is_selfref(c, vs) == vs.selfref = <<c>>

\* c's name is the version-set's and its version is in the range, or c has a
\* Provides entry for that name which satisfies the range
matches(c, vs) ==
    \/ /\ index.solvables[c + 1].package.name = index.names[vs.name + 1].name
       /\ version_satisfies(index.solvables[c + 1].package.version, vs.range)
    \/ \E k \in 1..Len(index.solvables[c + 1].package.provides) :
          /\ index.solvables[c + 1].package.provides[k].name = index.names[vs.name + 1].name
          /\ provided_satisfies(index.solvables[c + 1].package.provides[k], vs.range)

\* the candidates filter_candidates is to return for the flag
expected(c, vs, inverse) ==
    /\ ~is_selfref(c, vs)
    /\ arch_compatible(index.solvables[c + 1].arch, vs.arch)
    /\ (matches(c, vs) /\ ~inverse) \/ (~matches(c, vs) /\ inverse)

\* C4: filter_candidates returns, in input order, exactly the candidates that
\* are not the version-set's self-ref, whose arch satisfies the version-set's,
\* and that match it by name and version or through a Provides entry, XOR
\* inverse; so the results for the two flags are disjoint and together are
\* the candidates passing the self-ref and arch tests
C4_FilterCandidates ==
    out.op = "filter_candidates" =>
        \E vs \in {index.version_sets[out.version_set + 1]} :
        \E other \in {filter_candidates(index, out.candidates, out.version_set,
                                        ~out.inverse)} :
            /\ out.result = SelectSeq(out.candidates,
                                      LAMBDA c : expected(c, vs, out.inverse))
            /\ SeqToSet(out.result) \cap SeqToSet(other) = {}
            /\ SeqToSet(out.result) \cup SeqToSet(other)
                  = {c \in SeqToSet(out.candidates) :
                        /\ ~is_selfref(c, vs)
                        /\ arch_compatible(index.solvables[c + 1].arch, vs.arch)}

\* an inverse filtering of the self-ref and of a candidate of another arch
\* than the version-set's, neither of them Any
C4_Witness ==
    /\ out.op = "filter_candidates"
    /\ out.inverse
    /\ \E vs \in {index.version_sets[out.version_set + 1]} :
          /\ \E i \in 1..Len(out.candidates) : is_selfref(out.candidates[i], vs)
          /\ \E i \in 1..Len(out.candidates) :
                /\ ~is_selfref(out.candidates[i], vs)
                /\ ~arch_compatible(index.solvables[out.candidates[i] + 1].arch, vs.arch)

\* C10: x satisfies y exactly when x is Any, y is Any or x equals y; the
\* relation is reflexive and symmetric; a package of architecture all has the
\* arch Any, which satisfies and is satisfied by every arch; and two distinct
\* architectures other than Any never satisfy each other
C10_ArchSatisfies ==
    /\ \A x, y \in ArchIds :
          /\ satisfies(x, y) <=> arch_compatible(x, y)
          /\ satisfies(x, x)
          /\ satisfies(x, y) <=> satisfies(y, x)
          /\ (x # ArchAny /\ y # ArchAny /\ x # y) => ~satisfies(x, y)
    /\ \A s \in SolvableIds(index) :
          eq_ignore_ascii_case(index.solvables[s + 1].package.architecture, "all")
          => /\ index.solvables[s + 1].arch = ArchAny
             /\ \A y \in ArchIds : /\ satisfies(index.solvables[s + 1].arch, y)
                                    /\ satisfies(y, index.solvables[s + 1].arch)

\* a package of architecture all was kept for a version-set of a named arch,
\* in a universe of two named architectures
C10_Witness ==
    /\ out.op = "filter_candidates"
    /\ Len(index.archlist) >= 3
    /\ index.version_sets[out.version_set + 1].arch # ArchAny
    /\ \E i \in 1..Len(out.result) :
          /\ index.solvables[out.result[i] + 1].package.architecture = "all"
          /\ index.solvables[out.result[i] + 1].arch = ArchAny

(***************************************************************************)
(* Dependency graphs and install orders.                                   *)
(***************************************************************************)
\* a depends on b: a requirement of a (Pre-Depends or Depends, any
\* alternative) has a name that lists b as a candidate
depends_on(a, b) ==
    \E k \in 1..Len(requires_of(a)) : \E j \in 1..Len(requires_of(a)[k].alts) :
        b \in declaring(requires_of(a)[k].alts[j].name)

RECURSIVE reached(_, _, _)
\* the members reached from those of R along at most n dependencies
reached(members, R, n) ==
    IF n = 0 THEN R
    ELSE reached(members,
                 R \cup {b \in members : \E a \in R : a # b /\ depends_on(a, b)}, n - 1)

\* a dependency path leads from a to b inside the solution
path(members, a, b) == b \in reached(members, {a}, Cardinality(members))

\* the positions of the solvable s in the order
positions(order, s) == {i \in 1..Len(order) : order[i] = s}

\* C2: every edge of the graph dependency_graph returns has both endpoints in
\* the solution passed to it and joins two different solvables
C2_EdgesInsideSolution ==
    (out.op = "dependency_graph" /\ ~out.panicked) =>
        \A k \in 1..Len(out.graph.edges) :
            /\ out.graph.edges[k][1] \in SeqToSet(out.input)
            /\ out.graph.edges[k][2] \in SeqToSet(out.input)
            /\ out.graph.edges[k][1] # out.graph.edges[k][2]

\* a graph with an edge, of a solution one member of which names a candidate
\* left out of the solution and another names itself through a Provides
C2_Witness ==
    /\ out.op = "dependency_graph"
    /\ ~out.panicked
    /\ Len(out.graph.edges) > 0
    /\ \E a \in SeqToSet(out.input) :
       \E b \in SolvableIds(index) \ SeqToSet(out.input) : depends_on(a, b)
    /\ \E a \in SeqToSet(out.input) : depends_on(a, a)

\* C3: for members a and b of a solution where a depends on b and no
\* dependency path leads from b back to a, b comes before a in the sequence
\* sort_solution produces
C3_DependencyFirst ==
    (out.op = "sort_solution" /\ ~out.panicked) =>
        \A a, b \in SeqToSet(out.input) :
            (a # b /\ depends_on(a, b) /\ ~path(SeqToSet(out.input), b, a))
            => /\ positions(out.order, a) # {}
               /\ positions(out.order, b) # {}
               /\ \A i \in positions(out.order, a) :
                  \A j \in positions(out.order, b) : j < i

\* an order of three members: a chain of two dependencies without a way back
C3_Witness ==
    /\ out.op = "sort_solution"
    /\ ~out.panicked
    /\ \E a, b, c \in SeqToSet(out.input) :
          /\ a < b /\ depends_on(a, b) /\ ~path(SeqToSet(out.input), b, a)
          /\ depends_on(b, c) /\ ~path(SeqToSet(out.input), c, b)
          /\ c # a

\* C9: for members A and B of a solution each of which depends on the other,
\* the graph has both edges, and the install order holds A and B with nothing
\* between them but members of their own strongly connected component
C9_MutualDependency ==
    \A A, B \in SeqToSet(IF out.op \in {"dependency_graph", "sort_solution"}
                         THEN out.input ELSE <<>>) :
        (A # B /\ depends_on(A, B) /\ depends_on(B, A) /\ ~out.panicked)
        => /\ out.op = "dependency_graph" =>
                 /\ <<A, B>> \in SeqToSet(out.graph.edges)
                 /\ <<B, A>> \in SeqToSet(out.graph.edges)
           /\ out.op = "sort_solution" =>
                 /\ positions(out.order, A) # {}
                 /\ positions(out.order, B) # {}
                 /\ \A i \in positions(out.order, A) :
                    \A j \in positions(out.order, B) :
                    \A k \in 1..Len(out.order) :
                        (i < k /\ k < j) \/ (j < k /\ k < i)
                        => /\ path(SeqToSet(out.input), A, out.order[k])
                           /\ path(SeqToSet(out.input), out.order[k], A)

\* an order of three members, two of them mutually dependent with ids that
\* have the third, which is outside their component, between them
C9_Witness ==
    /\ out.op = "sort_solution"
    /\ ~out.panicked
    /\ \E A, B, C \in SeqToSet(out.input) :
          /\ depends_on(A, B) /\ depends_on(B, A)
          /\ A < C /\ C < B
          /\ ~path(SeqToSet(out.input), C, A)
          /\ C \in SeqToSet(out.order)

(***************************************************************************)
(* The lists of a problem.                                                 *)
(***************************************************************************)
\* the version-set id stands for the user-level constraint dep
interned_as(id, dep) ==
    /\ id \in 0..(Len(index.version_sets) - 1)
    /\ index.names[index.version_sets[id + 1].name + 1].name = dep.name
    /\ index.version_sets[id + 1].range = dep.range
    /\ index.version_sets[id + 1].selfref = <<>>

\* the requirement stands for the user-level dependency dep
requirement_interned_as(req, dep) ==
    IF dep.kind = "Single"
    THEN req.kind = "Single" /\ interned_as(req.id, dep.alts[1])
    ELSE /\ req.kind = "Union"
         /\ req.id \in 0..(Len(index.version_set_unions) - 1)
         /\ Len(index.version_set_unions[req.id + 1]) = Len(dep.alts)
         /\ \A k \in 1..Len(dep.alts) :
               interned_as(index.version_set_unions[req.id + 1][k], dep.alts[k])

\* the lists of the built problem p against what was asked for
problem_lists(asked, p) ==
    /\ Len(p.requirements) = Len(asked.requirements) + Len(index.required)
    /\ \A i \in 1..Len(asked.requirements) :
          requirement_interned_as(p.requirements[i], asked.requirements[i])
    /\ \A j \in 1..Len(index.required) :
          p.requirements[Len(asked.requirements) + j] = index.required[j]
    /\ Len(p.constraints) = Len(asked.constraints)
    /\ \A i \in 1..Len(asked.constraints) :
          interned_as(p.constraints[i], asked.constraints[i])

\* C5: the requirement list of every problem built is the interned user
\* requirements in input order followed by the universe's seeded baseline in
\* its stored order, and its constraint list is the interned user constraints
\* in input order; the baseline part is that of the universe for every problem
C5_ProblemLists ==
    \A p \in 1..Len(prob) : problem_lists(prob[p].asked, prob[p].problem)

\* a problem with a single and a union requirement and two constraints,
\* built over a universe with a seeded baseline
C5_Witness ==
    \E p \in 1..Len(prob) :
        /\ Len(prob[p].asked.requirements) = 2
        /\ prob[p].asked.requirements[1].kind = "Union"
        /\ Len(prob[p].asked.constraints) = 2
        /\ Len(index.required) >= 2

(***************************************************************************)
(* Ordering an order again.                                                *)
(***************************************************************************)
\* the number of times x occurs in seq
count(seq, x) == Cardinality({i \in 1..Len(seq) : seq[i] = x})

same_multiset(a, b) ==
    \A x \in SeqToSet(a) \cup SeqToSet(b) : count(a, x) = count(b, x)

\* C11: sort_solution applied to the order sort_solution returned succeeds
\* and returns the same multiset of solvable ids as that order.
C11_SortSolutionIdempotent ==
    (out.op = "sort_solution" /\ ~out.panicked) =>
        \E again \in {sort_solution(U, out.order)} :
            /\ ~again.panicked
            /\ same_multiset(again.order, out.order)

\* an order of two or more members returned for a slice that held more than
\* the order does: a repeated member, or one with no edge
C11_Witness ==
    /\ out.op = "sort_solution"
    /\ ~out.panicked
    /\ Len(out.order) >= 2
    /\ ~same_multiset(out.input, out.order)
    /\ out.order # SortSeq(out.order, LAMBDA a, b : a < b)

(***************************************************************************)
(* The members of an order.                                                *)
(***************************************************************************)
\* C12: the order sort_solution returns holds every distinct member of the
\* slice exactly once and nothing else, members with no dependency edge to
\* or from another member included.
C12_EveryMemberOnce ==
    (out.op = "sort_solution" /\ ~out.panicked) =>
        /\ SeqToSet(out.order) \subseteq SeqToSet(out.input)
        /\ \A x \in SeqToSet(out.input) : count(out.order, x) = 1

(***************************************************************************)
(* The arch of a package dependency's version-set.                         *)
(***************************************************************************)
\* the version-set id has the arch the constraint's qualifier decides: the
\* default when there is no qualifier, Any for the literal any, else the
\* archlist entry of the architecture the qualifier names
arch_as_qualified(id, dep, default) ==
    \E arch \in {index.version_sets[id + 1].arch} :
        IF dep.arch = <<>> THEN arch = default
        ELSE IF eq_ignore_ascii_case(dep.arch[1], "any") THEN arch = ArchAny
        ELSE /\ arch \in 1..(Len(index.archlist) - 1)
             /\ index.archlist[arch + 1] = dep.arch[1]

\* C13: the arch of each version-set interned for a package dependency is
\* the owning solvable's arch when the constraint has no arch qualifier,
\* Any when the qualifier is the literal any, and the archlist id of the
\* named architecture for any other qualifier.
C13_QualifierDecidesArch ==
    (out.op = "get_dependencies" /\ out.result.known) =>
        \E s \in {index.solvables[out.solvable + 1]} :
            /\ \A k \in 1..Len(out.result.requirements) :
                  \E dep \in {requires_of(out.solvable)[k]} :
                  \E ids \in {requirement_version_sets(index,
                                   out.result.requirements[k])} :
                      \A j \in 1..Len(ids) : arch_as_qualified(ids[j], dep.alts[j], s.arch)
            /\ \A k \in 1..Len(out.result.constrains) :
                  arch_as_qualified(out.result.constrains[k],
                                    constrains_of(out.solvable)[k].alts[1], s.arch)

(***************************************************************************)
(* The lists of a name during and after ingestion.                         *)
(***************************************************************************)
\* the ingested solvables whose own name is n or that provide n
naming(n) ==
    {s \in SolvableIds(index) : provides_name(index.solvables[s + 1].package, n)}

\* the ingested solvables named n that are essential or required
required_named(n) ==
    {s \in SolvableIds(index) : /\ index.solvables[s + 1].package.name = n
                                /\ is_required(index.solvables[s + 1].package)}

\* C14: after every completed add_package, the packages list of every name
\* holds exactly the ingested solvables that have or provide the name, its
\* required list exactly those that have the name and are essential or
\* required, never one that only provides it; required is a subset of
\* packages, and a solvable's name id is the entry of its own name.
C14_NameLists ==
    pc # "failed" =>
        /\ \A i \in 1..Len(index.names) :
              /\ SeqToSet(index.names[i].packages) = naming(index.names[i].name)
              /\ SeqToSet(index.names[i].required) = required_named(index.names[i].name)
              /\ SeqToSet(index.names[i].required) \subseteq SeqToSet(index.names[i].packages)
        /\ \A s \in SolvableIds(index) :
              /\ index.solvables[s + 1].name \in 0..(Len(index.names) - 1)
              /\ index.names[index.solvables[s + 1].name + 1].name
                    = index.solvables[s + 1].package.name

\* during ingestion, a name that had its entry before an essential package
\* providing it was added, and the name of that package with it as required
C14_Witness ==
    /\ pc = "new"
    /\ \E i, j \in 1..Len(index.names) : \E s \in SolvableIds(index) :
          /\ is_required(index.solvables[s + 1].package)
          /\ index.solvables[s + 1].name = j - 1
          /\ i # j
          /\ Len(index.names[i].packages) >= 2
          /\ index.names[i].packages[1] # s
          /\ s \in SeqToSet(index.names[i].packages)
          /\ s \notin SeqToSet(index.names[i].required)
          /\ s \in SeqToSet(index.names[j].required)

(***************************************************************************)
(* The dependencies of a solvable.                                         *)
(***************************************************************************)
\* every element of the list parses
parses(deps) == \A k \in 1..Len(deps) : deps[k].ok

\* the version-set id is of the constraint's name and range
stands_for(id, dep) ==
    /\ id \in 0..(Len(index.version_sets) - 1)
    /\ index.names[index.version_sets[id + 1].name + 1].name = dep.name
    /\ index.version_sets[id + 1].range = dep.range

\* the requirement is the dependency: Single of its constraint, or Union of
\* its alternatives in their written order
requirement_stands_for(req, dep) ==
    IF dep.kind = "Single"
    THEN req.kind = "Single" /\ stands_for(req.id, dep.alts[1])
    ELSE /\ req.kind = "Union"
         /\ req.id \in 0..(Len(index.version_set_unions) - 1)
         /\ Len(index.version_set_unions[req.id + 1]) = Len(dep.alts)
         /\ \A j \in 1..Len(dep.alts) :
               stands_for(index.version_set_unions[req.id + 1][j], dep.alts[j])

\* the two messages add_package_dependencies can intern for the solvable s
unknown_messages(s) ==
    { "error parsing dependencies for " \o full_name(index.solvables[s + 1].package),
      "error parsing constrains for " \o full_name(index.solvables[s + 1].package) }

\* C16: get_dependencies(s) is Known exactly when every element of s's
\* Pre-Depends, Depends, Conflicts and Breaks parses; then its requirements
\* are the Pre-Depends then the Depends elements in declaration order and
\* its constrains the Conflicts then the Breaks elements, one version-set
\* each.  Otherwise it is Unknown with an interned message naming the
\* package, and asking again gives the same result and adds no table entry.
C16_GetDependencies ==
    out.op = "get_dependencies" =>
        /\ out.result.known <=> (parses(requires_of(out.solvable))
                                 /\ parses(constrains_of(out.solvable)))
        /\ out.result.known =>
              /\ Len(out.result.requirements) = Len(requires_of(out.solvable))
              /\ \A k \in 1..Len(out.result.requirements) :
                    requirement_stands_for(out.result.requirements[k],
                                           requires_of(out.solvable)[k])
              /\ Len(out.result.constrains) = Len(constrains_of(out.solvable))
              /\ \A k \in 1..Len(out.result.constrains) :
                    stands_for(out.result.constrains[k],
                               constrains_of(out.solvable)[k].alts[1])
        /\ ~out.result.known =>
              /\ out.result.reason \in 0..(Len(interned) - 1)
              /\ interned[out.result.reason + 1] \in unknown_messages(out.solvable)
              /\ get_dependencies(U, out.solvable) = [u |-> U, deps |-> out.result]

\* Unknown for a package whose first Depends element parses and whose
\* second does not
C16_Witness ==
    /\ out.op = "get_dependencies"
    /\ ~out.result.known
    /\ Len(requires_of(out.solvable)) = 2
    /\ requires_of(out.solvable)[1].ok
    /\ ~requires_of(out.solvable)[2].ok

(***************************************************************************)
(* The order of candidates.                                                *)
(***************************************************************************)
\* the candidate's arch satisfies the universe's preferred arch
native(c) == arch_compatible(index.solvables[c + 1].arch, index.arch)

\* c is before d by package name, then by version
name_version_before(c, d) ==
    \/ cmp_bytes(as_bytes(index.solvables[c + 1].package.name),
                 as_bytes(index.solvables[d + 1].package.name)) = "Less"
    \/ /\ index.solvables[c + 1].package.name = index.solvables[d + 1].package.name
       /\ index.solvables[c + 1].package.version < index.solvables[d + 1].package.version

\* C17: sort_candidates leaves a permutation of the slice in which every
\* candidate whose arch does not satisfy the preferred arch precedes every
\* candidate whose arch does, and within each group candidates ascend by
\* package name, then by version; so a native candidate of the greatest
\* name and version is last.
C17_SortCandidates ==
    out.op = "sort_candidates" =>
        /\ same_multiset(out.result, out.input)
        /\ \A i, j \in 1..Len(out.result) :
              i < j =>
                /\ native(out.result[i]) => native(out.result[j])
                /\ (native(out.result[i]) <=> native(out.result[j]))
                      => ~name_version_before(out.result[j], out.result[i])
        /\ (\E i \in 1..Len(out.result) : native(out.result[i])) =>
              /\ native(out.result[Len(out.result)])
              /\ \A i \in 1..Len(out.result) :
                    native(out.result[i])
                    => ~name_version_before(out.result[Len(out.result)], out.result[i])

\* a slice given with a native candidate before a foreign one and before a
\* native one of a smaller version of its name, all three reordered
C17_Witness ==
    /\ out.op = "sort_candidates"
    /\ Len(out.input) = 3
    /\ native(out.input[1])
    /\ ~native(out.input[2])
    /\ native(out.input[3])
    /\ index.solvables[out.input[1] + 1].package.name
          = index.solvables[out.input[3] + 1].package.name
    /\ index.solvables[out.input[1] + 1].package.version
          > index.solvables[out.input[3] + 1].package.version
    /\ out.result = <<out.input[2], out.input[3], out.input[1]>>

(***************************************************************************)
(* What a finished universe keeps.                                         *)
(***************************************************************************)
\* the table b is the table a with entries appended
IsPrefix(a, b) == Len(a) <= Len(b) /\ SubSeq(b, 1, Len(a)) = a

\* C15: once Universe::new has returned, no call changes the solvables
\* table, the seeded baseline or the lists of an existing name; the name,
\* version-set and union tables only grow by appending, a name created by
\* interning a constraint has empty lists, and the value of every id issued
\* before stays what it was.
C15_Frame ==
    [][pc = "ready" =>
          /\ index'.solvables = index.solvables
          /\ index'.required = index.required
          /\ IsPrefix(index.names, index'.names)
          /\ \A i \in (Len(index.names) + 1)..Len(index'.names) :
                index'.names[i].packages = <<>> /\ index'.names[i].required = <<>>
          /\ IsPrefix(index.version_sets, index'.version_sets)
          /\ IsPrefix(index.version_set_unions, index'.version_set_unions)]_vars

\* a problem built after a query, over a universe with a seeded baseline,
\* that added a name with empty lists, version-sets and a union
C15_Witness ==
    /\ pc = "ready"
    /\ out.op = "problem"
    /\ calls = 1
    /\ Len(index.required) >= 1
    /\ Len(out.problem.requirements) >= 3
    /\ Len(index.version_set_unions) >= 2
    /\ \E i \in 1..Len(index.names) :
          /\ index.names[i].name = "d"
          /\ index.names[i].packages = <<>>
====
